---- MODULE Spec2Model ----
(***************************************************************************)
(* Model of v-common-onto's src/onto: the grouping Turtle writer           *)
(* TurtleFormatterWithPrefixes (turtle_formatters_with_prefixes.rs) and    *)
(* the two entry points of parser.rs, parse_raw and parse_to_predicate.    *)
(*                                                                         *)
(* Text is a sequence of one-character strings; the sink `write` is the    *)
(* text written so far.  A std::io::Write sink may fail: a failing call    *)
(* leaves a proper prefix of what it was writing in the sink.              *)
(***************************************************************************)
EXTENDS Integers, Sequences, FiniteSets, TLC

VARIABLES
    write,                  \* the sink: every character written so far
    current_subject,        \* String
    current_subject_type,   \* "None" | "NamedNode" | "BlankNode"
    current_predicate,      \* String
    pc,                     \* "start" (no writer yet) | "live" | "finished"
    prefixes,               \* the table handed to new()
    last,                   \* the most recent call: operation, argument, result, state before
    emitted,                \* the triples formatted successfully, with the sink length
                            \* before and after each of these calls
    io_errors,              \* calls in which a sink write failed, so far
    calls,                  \* calls of format and write_prefixes made on the writer
    later_prefix_calls,     \* calls of write_prefixes after new() returned
    iraw,                   \* the Individual: raw.data, raw.raw_type, obj.uri and the
                            \* predicates the collaborators have extracted into obj
    log,                    \* error! lines written so far
    parsed,                 \* the most recent parser call: operation, result, the
                            \* collaborators it invoked, the individual it was given
    parse_calls,            \* calls of parse_raw and parse_to_predicate so far
    raw_successes,          \* calls of parse_raw that returned Ok
    recent_first_byte,      \* traw[0] of the latest non-empty buffer parsed, or -1
    object,                 \* the Term handed to fmt_object
    rendered,               \* what fmt_object wrote for it
    esc_pc,                 \* "ready" | "written"
    input_char,             \* the char handed to EscapeRDF::new
    iter,                   \* the EscapeRDF iterator
    yielded,                \* the chars its next() has returned
    stepped,                \* the most recent next(): the iterator before, the item
    next_calls              \* calls of next() so far

writer_vars == <<write, current_subject, current_subject_type, current_predicate,
                 pc, prefixes, last, emitted, io_errors, calls, later_prefix_calls>>
parser_vars == <<iraw, log, parsed, parse_calls, raw_successes, recent_first_byte>>
escaper_vars == <<object, rendered, esc_pc, input_char, iter, yielded, stepped,
                  next_calls>>

vars == <<writer_vars, parser_vars, escaper_vars>>

----------------------------------------------------------------------------
(* Bounds *)

\* calls of format and write_prefixes on one writer
MaxCalls == 3
\* calls in which the sink fails
MaxFailures == 1
\* characters a failing call gets into the sink before the write that fails
MaxPartial == 2
\* calls of parse_raw and parse_to_predicate on one individual
MaxParseCalls == 3
\* chars in the value of a term handed to fmt_object
MaxValueLen == 2
\* calls of next() on one EscapeRDF
MaxNextCalls == 4

----------------------------------------------------------------------------
(* Input universe *)

NamedNode(iri) == [kind |-> "NamedNode", value |-> iri, tag |-> <<>>]
BlankNode(id) == [kind |-> "BlankNode", value |-> id, tag |-> <<>>]
Simple(value) == [kind |-> "Simple", value |-> value, tag |-> <<>>]
LanguageTaggedString(value, language) ==
    [kind |-> "LanguageTaggedString", value |-> value, tag |-> language]
Typed(value, datatype) == [kind |-> "Typed", value |-> value, tag |-> datatype]

Subjects == {NamedNode(<<"s">>), BlankNode(<<"s">>), NamedNode(<<"t">>)}
Predicates == {<<"p">>, <<"q">>}
Objects == {Simple(<<"v", "\"">>)}
Triples == [subject : Subjects, predicate : Predicates, object : Objects]

NoTriple == [subject |-> NamedNode(<<>>), predicate |-> <<>>, object |-> NamedNode(<<>>)]

PrefixNames == {<<"a", "b">>, <<"b">>}
PrefixIri(name) == IF name = <<"b">> THEN <<"x">> ELSE <<"y">>
Tables == {[n \in D |-> PrefixIri(n)] : D \in {{}, {<<"b">>}, PrefixNames}}

----------------------------------------------------------------------------
(* LiteralEscaper: EscapeRDF, one iterator per input character *)

\* faulty variant: carriage return is not among the escaped characters
EscapeRDF_new_NoCarriageReturn(c) ==
    CASE c = "\n" -> [state |-> "Backslash", c |-> "n"]
      [] c = "\"" -> [state |-> "Backslash", c |-> "\""]
      [] c = "\\" -> [state |-> "Backslash", c |-> "\\"]
      [] OTHER -> [state |-> "Char", c |-> c]

EscapeRDF_new(c) ==
    CASE c = "\n" -> [state |-> "Backslash", c |-> "n"]
      [] c = "\r" -> [state |-> "Backslash", c |-> "r"]
      [] c = "\"" -> [state |-> "Backslash", c |-> "\""]
      [] c = "\\" -> [state |-> "Backslash", c |-> "\\"]
      [] OTHER -> [state |-> "Char", c |-> c]

\* next(): the iterator after the call and the item returned (<<>> is None, <<c>> is Some(c))
EscapeRDF_next(it) ==
    CASE it.state = "Backslash" -> [it |-> [state |-> "Char", c |-> it.c], item |-> <<"\\">>]
      [] it.state = "Char" -> [it |-> [state |-> "Done", c |-> it.c], item |-> <<it.c>>]
      [] OTHER -> [it |-> it, item |-> <<>>]

\* faulty variant: the backslash still to come is not counted
EscapeRDF_len_CharOnly(it) ==
    IF it.state = "Done" THEN 0 ELSE 1

EscapeRDF_len(it) ==
    CASE it.state = "Done" -> 0
      [] it.state = "Char" -> 1
      [] OTHER -> 2

\* the characters an iterator yields until next() returns None
RECURSIVE Drain(_)
Drain(it) ==
    LET r == EscapeRDF_next(it)
    IN  IF r.item = <<>> THEN <<>> ELSE r.item \o Drain(r.it)

\* s.chars().flat_map(EscapeRDF::new)
RECURSIVE escape(_)
escape(s) ==
    IF s = <<>> THEN <<>> ELSE Drain(EscapeRDF_new(Head(s))) \o escape(Tail(s))

\* everything fmt_object writes for the term o when no write fails
fmt_object(o) ==
    CASE o.kind = "NamedNode" -> o.value
      [] o.kind = "BlankNode" -> o.value
      [] o.kind = "Simple" -> <<"\"">> \o escape(o.value) \o <<"\"">>
      [] o.kind = "LanguageTaggedString" ->
            <<"\"">> \o escape(o.value) \o <<"\"", "@">> \o o.tag
      [] OTHER -> <<"\"">> \o escape(o.value) \o <<"\"", "^", "^">> \o o.tag

----------------------------------------------------------------------------
(* PrefixTable: write_prefixes *)

\* the byte value of a character of a prefix name (String's Ord compares bytes)
CharCode(c) ==
    CASE c = "a" -> 97
      [] c = "b" -> 98
      [] c = "c" -> 99
      [] OTHER -> 0

\* x < y for Strings
RECURSIVE StrLess(_, _)
StrLess(x, y) ==
    IF y = <<>> THEN FALSE
    ELSE IF x = <<>> THEN TRUE
    ELSE IF Head(x) = Head(y) THEN StrLess(Tail(x), Tail(y))
    ELSE CharCode(Head(x)) < CharCode(Head(y))

RECURSIVE Insert(_, _)
Insert(k, sorted) ==
    IF sorted = <<>> THEN <<k>>
    ELSE IF StrLess(Head(sorted), k) THEN <<Head(sorted)>> \o Insert(k, Tail(sorted))
    ELSE <<k>> \o sorted

\* faulty variant: the keys are written in the order keys() yielded them
SortKeys_Unsorted(keys) == keys

\* keys.sort()
RECURSIVE SortKeys(_)
SortKeys(keys) ==
    IF keys = <<>> THEN <<>> ELSE Insert(Head(keys), SortKeys(Tail(keys)))

\* the orders in which prefixes.keys() may yield the keys of a HashMap
KeyOrders(table) ==
    {ks \in [1..Cardinality(DOMAIN table) -> DOMAIN table] :
        \A i, j \in DOMAIN ks : i # j => ks[i] # ks[j]}

\* writeln!(self.write, "@prefix {}: <{}> .", prefix, iri)
PrefixLine(name, iri) ==
    <<"@", "p", "r", "e", "f", "i", "x", " ">> \o name \o <<":", " ", "<">>
        \o iri \o <<">", " ", ".", "\n">>

RECURSIVE PrefixLines(_, _)
PrefixLines(table, keys) ==
    IF keys = <<>> THEN <<>>
    ELSE PrefixLine(Head(keys), table[Head(keys)]) \o PrefixLines(table, Tail(keys))

\* everything write_prefixes writes when no write fails; keys is what keys() yielded
WritePrefixesText(table, keys) ==
    PrefixLines(table, SortKeys(keys)) \o <<"\n">>

----------------------------------------------------------------------------
(* TurtleWriter: TurtleFormatterWithPrefixes *)

\* NamedOrBlankNodeType::with_value
with_value(type, value) ==
    IF type = "NamedNode" THEN NamedNode(value) ELSE BlankNode(value)

\* faulty variant: the identifiers alone are compared
SameSubject_IdOnly(type, subject, node) ==
    subject = node.value

\* current_subject == triple.subject: NamedOrBlankNode's derived equality
SameSubject(type, subject, node) ==
    with_value(type, subject) = node

\* faulty variant: the predicate is written again for every triple of a subject
FormatHead_RepeatPredicate(type, subject, predicate, triple) ==
    LET s == triple.subject.value
    IN  IF type # "None"
        THEN IF SameSubject(type, subject, triple.subject)
             THEN <<" ", ";", "\n", " ", " ">> \o triple.predicate \o <<" ">>
             ELSE <<" ", ".", "\n", "\n">> \o s \o <<" ", "\n", " ", " ">>
                      \o triple.predicate \o <<" ">>
        ELSE s \o <<" ", "\n", " ", " ">> \o triple.predicate \o <<" ">>

\* faulty variant: no space before the semicolon that ends a predicate group
FormatHead_NoSpaceBeforeSemicolon(type, subject, predicate, triple) ==
    LET s == triple.subject.value
    IN  IF type # "None"
        THEN IF SameSubject(type, subject, triple.subject)
             THEN IF predicate = triple.predicate
                  THEN <<",", " ">>
                  ELSE <<";", "\n", " ", " ">> \o triple.predicate \o <<" ">>
             ELSE <<" ", ".", "\n", "\n">> \o s \o <<" ", "\n", " ", " ">>
                      \o triple.predicate \o <<" ">>
        ELSE s \o <<" ", "\n", " ", " ">> \o triple.predicate \o <<" ">>

\* faulty variant: the predicate is compared before the subject, so a new subject with the
\* current predicate continues the predicate group
FormatHead_PredicateFirst(type, subject, predicate, triple) ==
    LET s == triple.subject.value
    IN  IF type # "None"
        THEN IF predicate = triple.predicate
             THEN <<",", " ">>
             ELSE IF SameSubject(type, subject, triple.subject)
                  THEN <<" ", ";", "\n", " ", " ">> \o triple.predicate \o <<" ">>
                  ELSE <<" ", ".", "\n", "\n">> \o s \o <<" ", "\n", " ", " ">>
                           \o triple.predicate \o <<" ">>
        ELSE s \o <<" ", "\n", " ", " ">> \o triple.predicate \o <<" ">>

\* what format writes before the object, by the state the writer is in
FormatHead(type, subject, predicate, triple) ==
    LET s == triple.subject.value
    IN  IF type # "None"
        THEN IF SameSubject(type, subject, triple.subject)
             THEN IF predicate = triple.predicate
                  THEN <<",", " ">>
                  ELSE <<" ", ";", "\n", " ", " ">> \o triple.predicate \o <<" ">>
             ELSE <<" ", ".", "\n", "\n">> \o s \o <<" ", "\n", " ", " ">>
                      \o triple.predicate \o <<" ">>
        ELSE s \o <<" ", "\n", " ", " ">> \o triple.predicate \o <<" ">>

\* everything format writes for the triple when no write fails
FormatText(type, subject, predicate, triple) ==
    FormatHead(type, subject, predicate, triple) \o fmt_object(triple.object)

\* faulty variant: the subject is recorded only by the first triple
NextSubject_OnlyWhenEmpty(subject, node) ==
    IF subject = <<>> THEN node.value ELSE subject

\* current_subject after format: clear(), then to_owned() or push_str()
NextSubject(subject, node) ==
    LET cleared == SubSeq(subject, 1, 0)
    IN  IF node.kind = "NamedNode" THEN node.value ELSE cleared \o node.value

NextSubjectType(node) ==
    IF node.kind = "NamedNode" THEN "NamedNode" ELSE "BlankNode"

\* faulty variant: push_str() without the clear()
NextPredicate_NoClear(predicate, iri) ==
    predicate \o iri

\* current_predicate after format: clear(), then push_str()
NextPredicate(predicate, iri) ==
    SubSeq(predicate, 1, 0) \o iri

\* faulty variant: the terminator is written whatever the state
FinishText_Always(type) ==
    <<" ", ".", "\n">>

\* what finish writes when no write fails
FinishText(type) ==
    IF type # "None" THEN <<" ", ".", "\n">> ELSE <<>>

\* how many characters of text a call may get into the sink: all of them, or, when
\* a write fails, fewer
Outcomes(text) ==
    IF io_errors < MaxFailures
    THEN {n \in 0..Len(text) : n = Len(text) \/ n <= MaxPartial}
    ELSE {Len(text)}

Call(op, triple, table, text, n) ==
    [op |-> op, triple |-> triple, table |-> table, ok |-> (n = Len(text)), n |-> n,
     pre_len |-> Len(write), pre_type |-> current_subject_type,
     pre_subject |-> current_subject, pre_predicate |-> current_predicate]

\* faulty variant: the failed write is skipped and the call carries on
Written_NoAbort(text, n) ==
    SubSeq(text, 1, n) \o SubSeq(text, n + 2, Len(text))

\* what a call leaves in the sink when its writes got n characters of text through:
\* every write is followed by ?, so the first failure ends the call
Written(text, n) ==
    SubSeq(text, 1, n)

\* faulty variant: the state is assigned before the writes are known to have succeeded
StateAfter_Always(ok, old, new) ==
    new

\* a field of the grouping state after format: the assignments follow the last ?
StateAfter(ok, old, new) ==
    IF ok THEN new ELSE old

\* the sink and the error count after a call that got n characters of text written
Sink(text, n) ==
    /\ write' = write \o Written(text, n)
    /\ io_errors' = IF n = Len(text) THEN io_errors ELSE io_errors + 1

----------------------------------------------------------------------------
(* parser.rs: parse_raw and parse_to_predicate on one Individual *)

\* const MSGPACK_MAGIC_HEADER: u8
MSGPACK_MAGIC_HEADER == 146

\* iraw.raw.data as handed to parse_raw
Buffers == {<<>>, <<146>>, <<146, 0>>, <<0>>, <<0, 146>>, <<145>>, <<147>>}
Uris == {<<"u">>, <<"w">>}
PredicateNames == {"rdf:type", "rdfs:label"}
\* the String of parse_msgpack_to_predicate's Err
Messages == {<<>>, <<"e">>}

\* an Individual nothing has parsed yet
NewIndividual ==
    [data |-> <<>>, raw_type |-> "Unknown", uri |-> <<>>, predicates |-> {}]

\* no collaborator was called, or it returned an Err without a message
NoResult == [ok |-> FALSE, uri |-> <<>>, msg |-> <<>>]

\* what parse_msgpack and parse_cbor may return: Ok(uri) or Err
DecodeResults ==
    {[ok |-> TRUE, uri |-> u, msg |-> <<>>] : u \in Uris} \cup {NoResult}

\* what parse_msgpack_to_predicate may return: Ok(()) or Err(msg)
MsgpackPredicateResults ==
    {[ok |-> TRUE, uri |-> <<>>, msg |-> <<>>]}
        \cup {[ok |-> FALSE, uri |-> <<>>, msg |-> m] : m \in Messages}

\* what parse_cbor_to_predicate may return
CborPredicateResults == {[ok |-> b, uri |-> <<>>, msg |-> <<>>] : b \in BOOLEAN}

\* the individual after a predicate collaborator ran: a successful one has added
\* the predicate's values
Extracted(individual, predicate, ok) ==
    IF ok
    THEN [individual EXCEPT !.predicates = individual.predicates \cup {predicate}]
    ELSE individual

\* faulty variant: every byte from the header up selects MessagePack
RawTypeOf_FromHeaderUp(byte) ==
    IF byte >= MSGPACK_MAGIC_HEADER THEN "Msgpack" ELSE "Cbor"

\* the tag parse_raw chooses from traw[0]
RawTypeOf(byte) ==
    IF byte = MSGPACK_MAGIC_HEADER THEN "Msgpack" ELSE "Cbor"

\* faulty variant: a tag already chosen is kept
Tagged_KeepChosen(individual) ==
    IF individual.raw_type = "Unknown"
    THEN [individual EXCEPT !.raw_type = RawTypeOf(individual.data[1])]
    ELSE individual

\* the individual once parse_raw has assigned raw_type, before it decodes
Tagged(individual) ==
    [individual EXCEPT !.raw_type = RawTypeOf(individual.data[1])]

\* the collaborator parse_raw hands the buffer to
Decoder(raw_type) ==
    CASE raw_type = "Msgpack" -> <<"parse_msgpack">>
      [] raw_type = "Cbor" -> <<"parse_cbor">>
      [] OTHER -> <<>>

\* what parse_raw's res may be: the decoder's result, or Err(-1) from the final else
DecodeOutcomes(raw_type) ==
    IF Decoder(raw_type) = <<>> THEN {NoResult} ELSE DecodeResults

\* the collaborator parse_to_predicate hands the individual to
Extractor(raw_type) ==
    CASE raw_type = "Msgpack" -> <<"parse_msgpack_to_predicate">>
      [] raw_type = "Cbor" -> <<"parse_cbor_to_predicate">>
      [] OTHER -> <<>>

\* the individual after the decoder returned res
Decoded(individual, res) ==
    IF res.ok THEN [individual EXCEPT !.uri = res.uri] ELSE individual

\* faulty variant: an Err is reported whatever its message
Logged_EveryErr(res) ==
    IF res.ok THEN 0 ELSE 1

\* error! lines parse_to_predicate writes for a MessagePack result
Logged(res) ==
    IF ~res.ok /\ res.msg # <<>> THEN 1 ELSE 0

NotParsed ==
    [op |-> "none", ok |-> FALSE, invoked |-> <<>>, pre_log |-> 0,
     given |-> NewIndividual, predicate |-> "", res |-> NoResult]

ParserIdle ==
    /\ iraw = NewIndividual
    /\ log = 0
    /\ parsed = NotParsed
    /\ parse_calls = 0
    /\ raw_successes = 0
    /\ recent_first_byte = -1

----------------------------------------------------------------------------
(* fmt_object and EscapeRDF on their own: the terms rendered, the characters escaped *)

Alphabet == {"a", "\t", "\n", "\r", "\"", "\\"}
Values == UNION {[1..n -> Alphabet] : n \in 0..MaxValueLen}
\* a language tag, a datatype IRI
Tags == {<<"e">>, <<"\\", "\"">>}
Terms ==
    {NamedNode(v) : v \in Values} \cup {BlankNode(v) : v \in Values}
        \cup {Simple(v) : v \in Values}
        \cup {LanguageTaggedString(v, t) : v \in Values, t \in Tags}
        \cup {Typed(v, t) : v \in Values, t \in Tags}

NotStepped == [called |-> FALSE, before |-> EscapeRDF_new("a"), item |-> <<>>]

EscaperIdle ==
    /\ object = NamedNode(<<>>)
    /\ rendered = <<>>
    /\ esc_pc = "ready"
    /\ input_char = "a"
    /\ iter = EscapeRDF_new("a")
    /\ yielded = <<>>
    /\ stepped = NotStepped
    /\ next_calls = 0

WriterIdle ==
    /\ write = <<>>
    /\ current_subject = <<>>
    /\ current_subject_type = "None"
    /\ current_predicate = <<>>
    /\ pc = "start"
    /\ prefixes = <<>>
    /\ last = [op |-> "none", triple |-> NoTriple, table |-> <<>>, ok |-> TRUE, n |-> 0,
               pre_len |-> 0, pre_type |-> "None", pre_subject |-> <<>>,
               pre_predicate |-> <<>>]
    /\ emitted = <<>>
    /\ io_errors = 0
    /\ calls = 0
    /\ later_prefix_calls = 0

Init ==
    /\ WriterIdle
    /\ ParserIdle
    /\ EscaperIdle

\* new(write, prefixes): the result of write_prefixes is dropped by unwrap_or_default
New ==
    /\ pc = "start"
    /\ \E table \in Tables : \E keys \in KeyOrders(table) :
         LET text == WritePrefixesText(table, keys)
         IN  \E n \in Outcomes(text) :
               /\ Sink(text, n)
               /\ prefixes' = table
               /\ last' = Call("new", NoTriple, table, text, n)
    /\ current_subject' = <<>>
    /\ current_subject_type' = "None"
    /\ current_predicate' = <<>>
    /\ pc' = "live"
    /\ UNCHANGED <<emitted, calls, later_prefix_calls>>
    /\ UNCHANGED parser_vars
    /\ UNCHANGED escaper_vars

\* pub fn write_prefixes, called on a live writer
WritePrefixes ==
    /\ pc = "live"
    /\ calls < MaxCalls
    /\ \E table \in Tables : \E keys \in KeyOrders(table) :
         LET text == WritePrefixesText(table, keys)
         IN  \E n \in Outcomes(text) :
               /\ Sink(text, n)
               /\ last' = Call("write_prefixes", NoTriple, table, text, n)
    /\ later_prefix_calls' = later_prefix_calls + 1
    /\ calls' = calls + 1
    /\ UNCHANGED <<current_subject, current_subject_type, current_predicate, pc,
                   prefixes, emitted>>
    /\ UNCHANGED parser_vars
    /\ UNCHANGED escaper_vars

\* format(triple)
Format ==
    /\ pc = "live"
    /\ calls < MaxCalls
    /\ \E triple \in Triples :
         LET text == FormatText(current_subject_type, current_subject,
                                current_predicate, triple)
         IN  \E n \in Outcomes(text) :
               /\ Sink(text, n)
               /\ last' = Call("format", triple, <<>>, text, n)
               /\ current_subject' =
                      StateAfter(n = Len(text), current_subject,
                                 NextSubject(current_subject, triple.subject))
               /\ current_subject_type' =
                      StateAfter(n = Len(text), current_subject_type,
                                 NextSubjectType(triple.subject))
               /\ current_predicate' =
                      StateAfter(n = Len(text), current_predicate,
                                 NextPredicate(current_predicate, triple.predicate))
               /\ emitted' = IF n = Len(text)
                             THEN Append(emitted, [triple |-> triple,
                                                   start |-> Len(write),
                                                   end |-> Len(write')])
                             ELSE emitted
    /\ calls' = calls + 1
    /\ UNCHANGED <<pc, prefixes, later_prefix_calls>>
    /\ UNCHANGED parser_vars
    /\ UNCHANGED escaper_vars

\* finish(self): the writer is consumed whether or not the write fails
Finish ==
    /\ pc = "live"
    /\ LET text == FinishText(current_subject_type)
       IN  \E n \in Outcomes(text) :
             /\ Sink(text, n)
             /\ last' = Call("finish", NoTriple, <<>>, text, n)
    /\ pc' = "finished"
    /\ UNCHANGED <<current_subject, current_subject_type, current_predicate,
                   prefixes, emitted, calls, later_prefix_calls>>
    /\ UNCHANGED parser_vars
    /\ UNCHANGED escaper_vars

Next == New \/ WritePrefixes \/ Format \/ Finish

Spec == Init /\ [][Next]_vars

----------------------------------------------------------------------------
(* parser.rs: the calls *)

\* parse_raw(iraw) on an individual holding the buffer data
ParseRaw ==
    /\ parse_calls < MaxParseCalls
    /\ \E data \in Buffers :
         LET given == [iraw EXCEPT !.data = data]
         IN  IF given.data = <<>>
             THEN /\ iraw' = given
                  /\ parsed' = [op |-> "parse_raw", ok |-> FALSE, invoked |-> <<>>,
                                pre_log |-> log, given |-> given, predicate |-> "",
                                res |-> NoResult]
                  /\ UNCHANGED <<raw_successes, recent_first_byte>>
             ELSE LET tagged == Tagged(given)
                  IN  \E res \in DecodeOutcomes(tagged.raw_type) :
                        /\ iraw' = Decoded(tagged, res)
                        /\ parsed' = [op |-> "parse_raw", ok |-> res.ok,
                                      invoked |-> Decoder(tagged.raw_type),
                                      pre_log |-> log, given |-> given, predicate |-> "",
                                      res |-> res]
                        /\ raw_successes' = raw_successes + (IF res.ok THEN 1 ELSE 0)
                        /\ recent_first_byte' = data[1]
    /\ parse_calls' = parse_calls + 1
    /\ UNCHANGED log
    /\ UNCHANGED writer_vars
    /\ UNCHANGED escaper_vars

\* parse_to_predicate(expect_predicate, iraw)
ParseToPredicate ==
    /\ parse_calls < MaxParseCalls
    /\ \E predicate \in PredicateNames :
         CASE iraw.raw_type = "Msgpack" ->
                \E res \in MsgpackPredicateResults :
                  /\ iraw' = Extracted(iraw, predicate, res.ok)
                  /\ log' = log + Logged(res)
                  /\ parsed' = [op |-> "parse_to_predicate", ok |-> res.ok,
                                invoked |-> Extractor(iraw.raw_type),
                                pre_log |-> log, given |-> iraw,
                                predicate |-> predicate, res |-> res]
           [] iraw.raw_type = "Cbor" ->
                \E res \in CborPredicateResults :
                  /\ iraw' = Extracted(iraw, predicate, res.ok)
                  /\ log' = log
                  /\ parsed' = [op |-> "parse_to_predicate", ok |-> res.ok,
                                invoked |-> Extractor(iraw.raw_type),
                                pre_log |-> log, given |-> iraw,
                                predicate |-> predicate, res |-> res]
           [] OTHER ->
                /\ iraw' = iraw
                /\ log' = log
                /\ parsed' = [op |-> "parse_to_predicate", ok |-> FALSE,
                              invoked |-> <<>>, pre_log |-> log, given |-> iraw,
                              predicate |-> predicate, res |-> NoResult]
    /\ parse_calls' = parse_calls + 1
    /\ UNCHANGED <<raw_successes, recent_first_byte>>
    /\ UNCHANGED writer_vars
    /\ UNCHANGED escaper_vars
\* the individual handed in has not been parsed; its tag is one no parse_raw assigns
ParserInit ==
    /\ iraw \in {[NewIndividual EXCEPT !.raw_type = t] : t \in {"Unknown", "Json"}}
    /\ log = 0
    /\ parsed = [NotParsed EXCEPT !.given = iraw]
    /\ parse_calls = 0
    /\ raw_successes = 0
    /\ recent_first_byte = -1
    /\ WriterIdle
    /\ EscaperIdle

ParserNext == ParseRaw \/ ParseToPredicate

SpecParser == ParserInit /\ [][ParserNext]_vars

----------------------------------------------------------------------------
(* fmt_object and EscapeRDF: one term to render, one iterator to step *)

EscaperInit ==
    /\ object \in Terms
    /\ rendered = <<>>
    /\ esc_pc = "ready"
    /\ input_char \in Alphabet
    /\ iter = EscapeRDF_new(input_char)
    /\ yielded = <<>>
    /\ stepped = NotStepped
    /\ next_calls = 0
    /\ WriterIdle
    /\ ParserIdle

\* fmt_object(o, f) on a sink that takes every write
FmtObject ==
    /\ esc_pc = "ready"
    /\ rendered' = fmt_object(object)
    /\ esc_pc' = "written"
    /\ UNCHANGED <<object, input_char, iter, yielded, stepped, next_calls>>
    /\ UNCHANGED writer_vars
    /\ UNCHANGED parser_vars

\* one call of next() on the iterator
EscapeNext ==
    /\ next_calls < MaxNextCalls
    /\ LET r == EscapeRDF_next(iter)
       IN  /\ iter' = r.it
           /\ yielded' = yielded \o r.item
           /\ stepped' = [called |-> TRUE, before |-> iter, item |-> r.item]
    /\ next_calls' = next_calls + 1
    /\ UNCHANGED <<object, rendered, esc_pc, input_char>>
    /\ UNCHANGED writer_vars
    /\ UNCHANGED parser_vars

EscaperNext == FmtObject \/ EscapeNext

SpecEscaper == EscaperInit /\ [][EscaperNext]_vars


----------------------------------------------------------------------------
(* Properties *)

\* the text the most recent call appended to the sink
Appended == SubSeq(write, last.pre_len + 1, Len(write))

\* the most recent call was a format that returned Ok
FormatOk == last.op = "format" /\ last.ok

\* the writer was in state HasSubject when the most recent call began
WasHasSubject == last.pre_type # "None"

\* the subject of the most recent call's triple is the subject the writer held
SubjectUnchanged ==
    /\ last.triple.subject.kind = last.pre_type
    /\ last.triple.subject.value = last.pre_subject

PredicateUnchanged == last.triple.predicate = last.pre_predicate

\* C1: in state HasSubject(kind, id, p), a successful format of a triple with the
\* same subject kind and id and with predicate p appends exactly ", " and the
\* rendering of the object: neither the subject nor the predicate is written.
C1_SameSubjectSamePredicate ==
    (FormatOk /\ WasHasSubject /\ SubjectUnchanged /\ PredicateUnchanged)
        => Appended = <<",", " ">> \o fmt_object(last.triple.object)

C1_Witness ==
    FormatOk /\ WasHasSubject /\ SubjectUnchanged /\ PredicateUnchanged

\* C2: in state HasSubject(kind, id, p), a successful format of a triple with the
\* same subject and a predicate other than p appends exactly " ;\n  ", the
\* predicate, a space and the rendering of the object: the subject is not written.
C2_SameSubjectOtherPredicate ==
    (FormatOk /\ WasHasSubject /\ SubjectUnchanged /\ ~PredicateUnchanged)
        => Appended = <<" ", ";", "\n", " ", " ">> \o last.triple.predicate
                          \o <<" ">> \o fmt_object(last.triple.object)

C2_Witness ==
    FormatOk /\ WasHasSubject /\ SubjectUnchanged /\ ~PredicateUnchanged

\* C3: in state HasSubject, a successful format of a triple with another subject
\* appends exactly " .\n\n", the subject, " \n  ", the predicate, a space and the
\* rendering of the object, also when the predicate is the current predicate.
C3_OtherSubject ==
    (FormatOk /\ WasHasSubject /\ ~SubjectUnchanged)
        => Appended = <<" ", ".", "\n", "\n">> \o last.triple.subject.value
                          \o <<" ", "\n", " ", " ">> \o last.triple.predicate
                          \o <<" ">> \o fmt_object(last.triple.object)

C3_Witness ==
    FormatOk /\ WasHasSubject /\ ~SubjectUnchanged /\ PredicateUnchanged

\* the writer state is HasSubject(kind, id, predicate) of the triple
Mirrors(triple) ==
    /\ current_subject_type = triple.subject.kind
    /\ current_subject = triple.subject.value
    /\ current_predicate = triple.predicate

\* C4: a writer that is not Empty holds the subject kind, subject id and predicate
\* of the most recent triple formatted successfully; every successful format sets
\* them, also when they were unchanged; the state is Empty only as long as no
\* format succeeded, so a writer never goes from HasSubject back to Empty.
C4_StateMirrorsLastTriple ==
    /\ current_subject_type # "None" =>
         emitted # <<>> /\ Mirrors(emitted[Len(emitted)].triple)
    /\ emitted # <<>> => current_subject_type # "None"
    /\ FormatOk => Mirrors(last.triple)

C4_Witness ==
    /\ FormatOk /\ WasHasSubject /\ SubjectUnchanged /\ PredicateUnchanged
    /\ Len(emitted) >= 2
    /\ io_errors > 0
    /\ Mirrors(last.triple)

Terminator == <<" ", ".", "\n">>

FinishCall == last.op = "finish"

\* the sink ends with the text
EndsWith(text) ==
    /\ Len(write) >= Len(text)
    /\ SubSeq(write, Len(write) - Len(text) + 1, Len(write)) = text

\* the lines of a table in ascending order of name, and the empty line
PrefixBlock(table) ==
    LET ks == CHOOSE ks \in KeyOrders(table) :
                  \A i, j \in DOMAIN ks : i < j => StrLess(ks[i], ks[j])
    IN  PrefixLines(table, ks) \o <<"\n">>

\* C5 as stated: finish appends exactly one terminator in state HasSubject and
\* nothing in state Empty, and returns the sink in both cases; after at least one
\* formatted triple the output ends with the terminator, and after no call (on a
\* sink that took the prefix block) it is the prefix block only.
C5_FinishAsStated ==
    FinishCall =>
        /\ last.ok
        /\ Appended = (IF WasHasSubject THEN Terminator ELSE <<>>)
        /\ emitted # <<>> => EndsWith(Terminator)
        /\ (calls = 0 /\ io_errors = 0) => write = PrefixBlock(prefixes)

\* C5, amended: a finish whose sink write succeeds appends exactly one terminator
\* in state HasSubject and returns the sink, and a finish whose write fails returns
\* the error instead, with less than the terminator appended; a finish in state
\* Empty writes nothing and returns the sink; so after at least one successful
\* format a finish whose write succeeds leaves the output ending with the
\* terminator, when no format succeeded finish leaves the sink as it found it, and
\* when finish is the first call on a writer whose sink never failed the output is
\* the prefix block only.
C5_FinishTerminator ==
    FinishCall =>
        /\ (last.ok /\ WasHasSubject) => Appended = Terminator
        /\ ~last.ok => /\ WasHasSubject
                       /\ Len(Appended) < Len(Terminator)
                       /\ Appended = SubSeq(Terminator, 1, Len(Appended))
        /\ ~WasHasSubject => last.ok /\ Appended = <<>>
        /\ (last.ok /\ emitted # <<>>) => EndsWith(Terminator) /\ WasHasSubject
        /\ emitted = <<>> => Len(write) = last.pre_len /\ ~WasHasSubject
        /\ (calls = 0 /\ io_errors = 0) => write = PrefixBlock(prefixes)

C5_Witness ==
    FinishCall /\ last.ok /\ Len(emitted) >= 2 /\ EndsWith(Terminator)

\* the appended text continues the current block: it begins ", " or " ;"
Continues ==
    /\ Len(Appended) >= 2
    /\ SubSeq(Appended, 1, 2) \in {<<",", " ">>, <<" ", ";">>}

\* the appended text closes the current block and begins another with the subject
StartsBlock ==
    LET open == <<" ", ".", "\n", "\n">> \o last.triple.subject.value
                    \o <<" ", "\n", " ", " ">>
    IN  /\ Len(Appended) >= Len(open)
        /\ SubSeq(Appended, 1, Len(open)) = open

\* C6: format treats the current subject and the triple's subject as equal iff kind
\* and identifier both match: a successful format in state HasSubject continues
\* the block iff both match, and a Named and a Blank subject with the same
\* identifier start a new block.
C6_SubjectEqualityKindAndId ==
    (FormatOk /\ WasHasSubject) =>
        /\ Continues <=> SubjectUnchanged
        /\ StartsBlock <=> ~SubjectUnchanged

C6_Witness ==
    /\ FormatOk /\ WasHasSubject
    /\ last.triple.subject.value = last.pre_subject
    /\ last.triple.subject.kind # last.pre_type
    /\ StartsBlock

\* C7 as stated: constructing a writer writes the table's lines in ascending order
\* of name, then one empty line, and leaves the state Empty.
C7_ConstructionWritesPrefixBlock ==
    last.op = "new" =>
        /\ write = PrefixBlock(last.table)
        /\ current_subject_type = "None"

\* a character of a prefix line is in the sink after the text of a triple
PrefixAfterTriple ==
    /\ emitted # <<>>
    /\ \E i \in emitted[1].end + 1 .. Len(write) : write[i] = "@"

\* C8 as stated: no prefix line is written after construction returned, so none
\* follows the text of a triple (here: on a sink that never failed).
C8_NoPrefixAfterConstruction ==
    io_errors = 0 => ~PrefixAfterTriple

\* what the decision table gives for a triple, by the triple formatted before it
\* (NoTriple: none)
Expected(prev, triple) ==
    LET s == triple.subject.value
        p == triple.predicate
        o == fmt_object(triple.object)
        opening == s \o <<" ", "\n", " ", " ">> \o p \o <<" ">> \o o
    IN  IF prev = NoTriple THEN opening
        ELSE IF prev.subject # triple.subject
             THEN <<" ", ".", "\n", "\n">> \o opening
        ELSE IF prev.predicate # triple.predicate
             THEN <<" ", ";", "\n", " ", " ">> \o p \o <<" ">> \o o
        ELSE <<",", " ">> \o o

Previous(i) == IF i = 1 THEN NoTriple ELSE emitted[i - 1].triple

\* C9: every successful format appends the triple's text during the call, the
\* texts lie in the sink in the order of the calls, and each is decided by the
\* triple formatted just before it alone: subjects A, B, A give three blocks.
C9_NoReorderingNoBuffering ==
    /\ \A i \in DOMAIN emitted :
         /\ emitted[i].end <= Len(write)
         /\ SubSeq(write, emitted[i].start + 1, emitted[i].end)
                = Expected(Previous(i), emitted[i].triple)
         /\ i > 1 => emitted[i - 1].end <= emitted[i].start
    /\ FormatOk => emitted[Len(emitted)].end = Len(write)

C9_Witness ==
    /\ Len(emitted) = 3
    /\ emitted[1].triple.subject = emitted[3].triple.subject
    /\ emitted[1].triple.subject # emitted[2].triple.subject
    /\ emitted[1].triple.predicate = emitted[3].triple.predicate
    /\ FormatOk /\ StartsBlock

\* the length of the maximal run of triples with the first one's subject
RECURSIVE SubjectRun(_)
SubjectRun(ts) ==
    IF Len(ts) <= 1 THEN Len(ts)
    ELSE IF ts[2].subject = ts[1].subject THEN 1 + SubjectRun(Tail(ts))
    ELSE 1

\* the length of the maximal run of triples with the first one's predicate
RECURSIVE PredicateRun(_)
PredicateRun(ts) ==
    IF Len(ts) <= 1 THEN Len(ts)
    ELSE IF ts[2].predicate = ts[1].predicate THEN 1 + PredicateRun(Tail(ts))
    ELSE 1

Drop(ts, n) == SubSeq(ts, n + 1, Len(ts))

\* the objects of the triples, joined by ", "
RECURSIVE ObjectList(_)
ObjectList(ts) ==
    IF Len(ts) = 1 THEN fmt_object(ts[1].object)
    ELSE fmt_object(ts[1].object) \o <<",", " ">> \o ObjectList(Tail(ts))

\* the predicate groups of the triples of one subject, joined by " ;\n  "
RECURSIVE GroupList(_)
GroupList(ts) ==
    LET n == PredicateRun(ts)
        group == ts[1].predicate \o <<" ">> \o ObjectList(SubSeq(ts, 1, n))
    IN  IF n = Len(ts) THEN group
        ELSE group \o <<" ", ";", "\n", " ", " ">> \o GroupList(Drop(ts, n))

\* the blocks of the triples, joined by " .\n\n"
RECURSIVE BlockList(_)
BlockList(ts) ==
    LET n == SubjectRun(ts)
        block == ts[1].subject.value \o <<" ", "\n", " ", " ">>
                     \o GroupList(SubSeq(ts, 1, n))
    IN  IF n = Len(ts) THEN block
        ELSE block \o <<" ", ".", "\n", "\n">> \o BlockList(Drop(ts, n))

\* the whole document for a table and a non-empty sequence of triples
Document(table, ts) == PrefixBlock(table) \o BlockList(ts) \o Terminator

EmittedTriples == [i \in DOMAIN emitted |-> emitted[i].triple]

\* the sink after new(table), format of each triple in turn, and finish, when no
\* write fails
RECURSIVE FormatAll(_, _, _, _)
FormatAll(type, subject, predicate, ts) ==
    IF ts = <<>> THEN FinishText(type)
    ELSE FormatText(type, subject, predicate, Head(ts))
             \o FormatAll(NextSubjectType(Head(ts).subject),
                          NextSubject(subject, Head(ts).subject),
                          NextPredicate(predicate, Head(ts).predicate), Tail(ts))

Output(table, keys, ts) ==
    WritePrefixesText(table, keys) \o FormatAll("None", <<>>, <<>>, ts)

ExIri(local) == <<"h", "t", "t", "p", ":", "/", "/", "e", "x", ".", "o", "r", "g", "/">> \o local
ExTriple(s, v) ==
    [subject |-> NamedNode(ExIri(s)), predicate |-> ExIri(<<"p", "1">>),
     object |-> Simple(v)]
ExTable == [n \in {<<"e", "x">>} |-> ExIri(<<>>)]
ExTriples ==
    <<ExTriple(<<"s", "1">>, <<"v", "1">>), ExTriple(<<"s", "1">>, <<"v", "2">>),
      ExTriple(<<"s", "2">>, <<"v", "3">>)>>
ExText ==
    <<"@", "p", "r", "e", "f", "i", "x", " ", "e", "x", ":", " ", "<", "h", "t", "t",
          "p", ":", "/", "/", "e", "x", ".", "o", "r", "g", "/", ">", " ", ".", "\n",
          "\n", "h", "t", "t", "p", ":", "/", "/", "e", "x", ".", "o", "r", "g", "/",
          "s", "1", " ", "\n", " ", " ", "h", "t", "t", "p", ":", "/", "/", "e", "x",
          ".", "o", "r", "g", "/", "p", "1", " ", "\"", "v", "1", "\"", ",", " ", "\"",
          "v", "2", "\"", " ", ".", "\n", "\n", "h", "t", "t", "p", ":", "/", "/", "e",
          "x", ".", "o", "r", "g", "/", "s", "2", " ", "\n", " ", " ", "h", "t", "t",
          "p", ":", "/", "/", "e", "x", ".", "o", "r", "g", "/", "p", "1", " ", "\"",
          "v", "3", "\"", " ", ".", "\n">>

\* what the writer produces for the end-to-end example
ExOutput == Output(ExTable, <<<<"e", "x">>>>, ExTriples)

\* C10: after new, at least one format and finish, all on a sink that never fails
\* and with no other call, the sink holds the prefix block, then one block for
\* each maximal run of triples with equal subject, each with one predicate group
\* for each maximal run of equal predicates, joined and terminated as the grammar
\* says, with as many objects as triples; and the end-to-end example gives its text.
C10_WholeDocument ==
    /\ (FinishCall /\ io_errors = 0 /\ later_prefix_calls = 0 /\ emitted # <<>>)
           => /\ write = Document(prefixes, EmittedTriples)
              /\ Len(emitted) = calls
    /\ ExOutput = ExText

C10_Witness ==
    /\ FinishCall /\ io_errors = 0 /\ later_prefix_calls = 0
    /\ Len(emitted) = 3
    /\ emitted[1].triple.subject = emitted[2].triple.subject
    /\ emitted[1].triple.predicate = emitted[2].triple.predicate
    /\ emitted[3].triple.subject # emitted[2].triple.subject
    /\ DOMAIN prefixes # {}
    /\ write = Document(prefixes, EmittedTriples)

\* C11: parse_raw picks the decode path from the first byte of the buffer only.  On an
\* empty buffer it returns the error, invokes no decoder and leaves the tag and the
\* uri as they were; on a non-empty buffer it invokes exactly one decoder exactly
\* once, parse_msgpack iff the first byte is 146 and parse_cbor otherwise.
C11_DecoderFromFirstByte ==
    parsed.op = "parse_raw" =>
        IF parsed.given.data = <<>>
        THEN /\ ~parsed.ok
             /\ parsed.invoked = <<>>
             /\ iraw.raw_type = parsed.given.raw_type
             /\ iraw.uri = parsed.given.uri
        ELSE /\ Len(parsed.invoked) = 1
             /\ parsed.invoked[1] = "parse_msgpack" <=> parsed.given.data[1] = 146
             /\ parsed.invoked[1] = "parse_cbor" <=> parsed.given.data[1] # 146

\* a buffer whose first byte is 0 and whose second is 146 went to parse_cbor, on an
\* individual whose tag was Msgpack
C11_Witness ==
    /\ parsed.op = "parse_raw"
    /\ parsed.given.data = <<0, 146>>
    /\ parsed.given.raw_type = "Msgpack"
    /\ parsed.invoked = <<"parse_cbor">>

\* C12: on success parse_raw returns Ok and has recorded the chosen tag and the
\* decoded uri; when the decoder fails it returns the error and has recorded
\* neither, the tag and the uri being what they were before the call.
C12_FailureRecordsNothing ==
    parsed.op = "parse_raw" /\ parsed.given.data # <<>> =>
        IF parsed.res.ok
        THEN /\ parsed.ok
             /\ iraw.raw_type = (IF parsed.given.data[1] = 146 THEN "Msgpack" ELSE "Cbor")
             /\ iraw.uri = parsed.res.uri
        ELSE /\ ~parsed.ok
             /\ iraw.raw_type = parsed.given.raw_type
             /\ iraw.uri = parsed.given.uri

\* C13: a parse_to_predicate call made while no parse_raw has succeeded on the
\* individual returns false, invokes no collaborator and changes nothing on the
\* individual.
C13_NoExtractionBeforeSuccess ==
    parsed.op = "parse_to_predicate" /\ raw_successes = 0 =>
        /\ ~parsed.ok
        /\ parsed.invoked = <<>>
        /\ iraw = parsed.given

\* C14: parse_to_predicate returns a boolean in every case.  Tag Msgpack: true iff
\* parse_msgpack_to_predicate returned Ok; on Err(msg) false, with one error! line
\* iff msg is not empty.  Tag Cbor: the boolean parse_cbor_to_predicate returned,
\* and no line.  Any other tag: false, no collaborator, no line.
C14_BooleanAndLog ==
    parsed.op = "parse_to_predicate" =>
        /\ parsed.ok \in BOOLEAN
        /\ CASE parsed.given.raw_type = "Msgpack" ->
                  /\ parsed.invoked = <<"parse_msgpack_to_predicate">>
                  /\ parsed.ok <=> parsed.res.ok
                  /\ log - parsed.pre_log =
                         (IF ~parsed.res.ok /\ parsed.res.msg # <<>> THEN 1 ELSE 0)
             [] parsed.given.raw_type = "Cbor" ->
                  /\ parsed.invoked = <<"parse_cbor_to_predicate">>
                  /\ parsed.ok <=> parsed.res.ok
                  /\ log = parsed.pre_log
             [] OTHER ->
                  /\ parsed.invoked = <<>>
                  /\ ~parsed.ok
                  /\ log = parsed.pre_log

\* parse_msgpack_to_predicate returned an Err with an empty message: false, no line
C14_Witness ==
    /\ parsed.op = "parse_to_predicate"
    /\ parsed.given.raw_type = "Msgpack"
    /\ ~parsed.res.ok
    /\ parsed.res.msg = <<>>
    /\ ~parsed.ok
    /\ log = 0

\* C20: every parse_raw on a non-empty buffer sets the tag from the first byte alone,
\* whatever tag earlier calls left; whenever parse_raw returns Ok the tag is Msgpack
\* or Cbor and names the decoder that produced the recorded uri; so a
\* parse_to_predicate dispatches by the first byte of the latest non-empty buffer
\* parsed.
C20_TagFollowsLatestFirstByte ==
    /\ parsed.op = "parse_raw" /\ parsed.given.data # <<>> =>
           iraw.raw_type = (IF parsed.given.data[1] = 146 THEN "Msgpack" ELSE "Cbor")
    /\ parsed.op = "parse_raw" /\ parsed.ok =>
           /\ iraw.raw_type \in {"Msgpack", "Cbor"}
           /\ parsed.invoked =
                  (IF iraw.raw_type = "Msgpack" THEN <<"parse_msgpack">>
                                                ELSE <<"parse_cbor">>)
           /\ iraw.uri = parsed.res.uri
    /\ parsed.op = "parse_to_predicate" /\ recent_first_byte # -1 =>
           parsed.invoked =
               (IF recent_first_byte = 146 THEN <<"parse_msgpack_to_predicate">>
                                           ELSE <<"parse_cbor_to_predicate">>)

\* the third call is a parse_to_predicate that went to the CBOR collaborator after
\* two parse_raw calls, one failed and one Ok, the later of them on first byte 145
C20_Witness ==
    /\ parsed.op = "parse_to_predicate"
    /\ parse_calls = 3
    /\ raw_successes = 1
    /\ recent_first_byte = 145
    /\ parsed.given.data = <<145>>
    /\ parsed.invoked = <<"parse_cbor_to_predicate">>

\* the most recent call was a format or a finish in which a sink write failed
FailedCall == last.op \in {"format", "finish"} /\ ~last.ok

\* everything the most recent format or finish call had to write
Intended ==
    IF last.op = "format"
    THEN FormatText(last.pre_type, last.pre_subject, last.pre_predicate, last.triple)
    ELSE FinishText(last.pre_type)

\* C15: a format or finish call in which a sink write fails returns the error and
\* writes nothing after the failure; what it wrote before the failure stays in the
\* sink: the call has appended exactly the part of its text that preceded the
\* failing write.
C15_FailedCallStopsAtFailure ==
    FailedCall =>
        /\ last.n < Len(Intended)
        /\ Appended = SubSeq(Intended, 1, last.n)

\* a format of another predicate of the same subject failed after the " ;" of the
\* separator, which is still in the sink
C15_Witness ==
    /\ last.op = "format"
    /\ ~last.ok
    /\ WasHasSubject
    /\ SubjectUnchanged
    /\ ~PredicateUnchanged
    /\ Appended = <<" ", ";">>

\* C16: a write failure while new() emits the prefixes reaches the caller, so no
\* triple is ever written to a sink whose prefix block (every line and the empty
\* line) is incomplete.
C16_NoTripleAfterIncompletePrefixBlock ==
    emitted # <<>> /\ later_prefix_calls = 0 =>
        /\ emitted[1].start = Len(PrefixBlock(prefixes))
        /\ SubSeq(write, 1, emitted[1].start) = PrefixBlock(prefixes)

\* C18: a format call that fails leaves current_subject_type, current_subject and
\* current_predicate as they were before the call; so a writer none of whose format
\* calls succeeded is still Empty, and its finish appends nothing.
C18_FailedFormatKeepsState ==
    /\ last.op = "format" /\ ~last.ok =>
           /\ current_subject_type = last.pre_type
           /\ current_subject = last.pre_subject
           /\ current_predicate = last.pre_predicate
    /\ emitted = <<>> => current_subject_type = "None"
    /\ FinishCall /\ emitted = <<>> => Appended = <<>>

\* finish on a writer whose one format call failed after writing the subject and a
\* space: the sink holds the prefix block and those two characters, and no terminator
C18_Witness ==
    /\ FinishCall
    /\ last.ok
    /\ emitted = <<>>
    /\ calls = 1
    /\ later_prefix_calls = 0
    /\ io_errors = 1
    /\ write = PrefixBlock(prefixes) \o <<"s", " ">>

\* the characters written for one character of a lexical value
EscapedChar(c) ==
    CASE c = "\n" -> <<"\\", "n">>
      [] c = "\r" -> <<"\\", "r">>
      [] c = "\"" -> <<"\\", "\"">>
      [] c = "\\" -> <<"\\", "\\">>
      [] OTHER -> <<c>>

RECURSIVE EscapedValue(_)
EscapedValue(s) ==
    IF s = <<>> THEN <<>> ELSE EscapedChar(Head(s)) \o EscapedValue(Tail(s))

\* C17: the object is rendered with exactly four characters of a literal's value
\* escaped, each on its own: line feed as \n, carriage return as \r, double quote as
\* \", backslash as \\, every other character as itself.  The escaped value stands
\* between double quotes for Simple, LanguageTaggedString and Typed literals; the
\* language tag after "@, the datatype IRI after "^^ (no angle brackets) and the
\* identifiers of NamedNode and BlankNode objects are written as they are.
C17_ObjectRendering ==
    esc_pc = "written" =>
        rendered =
            CASE object.kind = "Simple" ->
                   <<"\"">> \o EscapedValue(object.value) \o <<"\"">>
              [] object.kind = "LanguageTaggedString" ->
                   <<"\"">> \o EscapedValue(object.value) \o <<"\"", "@">> \o object.tag
              [] object.kind = "Typed" ->
                   <<"\"">> \o EscapedValue(object.value) \o <<"\"", "^", "^">>
                       \o object.tag
              [] OTHER -> object.value

\* a Typed literal whose value is a carriage return and a tab and whose datatype IRI
\* holds a backslash and a double quote
C17_Witness ==
    /\ esc_pc = "written"
    /\ object = Typed(<<"\r", "\t">>, <<"\\", "\"">>)
    /\ rendered = <<"\"", "\\", "r", "\t", "\"", "^", "^", "\\", "\"">>

SpecialChars == {"\n", "\r", "\"", "\\"}

\* C19: EscapeRDF goes Backslash(c) -> Char(c) -> Done, and in every state len() is
\* the number of characters next() will still return (2, 1, 0): two characters come
\* out for each of the four special characters and one for any other, each next()
\* that returns a character lowers len() by one, and in Done every next() returns
\* None.
C19_LenIsRemaining ==
    /\ EscapeRDF_len(iter) = Len(Drain(iter))
    /\ EscapeRDF_len(iter) =
           (CASE iter.state = "Backslash" -> 2 [] iter.state = "Char" -> 1 [] OTHER -> 0)
    /\ Len(yielded) + EscapeRDF_len(iter) = (IF input_char \in SpecialChars THEN 2 ELSE 1)
    /\ stepped.called =>
           /\ stepped.item # <<>> =>
                  EscapeRDF_len(iter) = EscapeRDF_len(stepped.before) - 1
           /\ stepped.before.state = "Backslash" =>
                  iter = [state |-> "Char", c |-> stepped.before.c]
           /\ stepped.before.state = "Char" => iter.state = "Done"
           /\ stepped.before.state = "Done" =>
                  stepped.item = <<>> /\ iter.state = "Done"

\* four calls of next() on the iterator of a carriage return: backslash, r, None, None
C19_Witness ==
    /\ input_char = "\r"
    /\ next_calls = 4
    /\ yielded = <<"\\", "r">>
    /\ stepped.called
    /\ stepped.before.state = "Done"
    /\ stepped.item = <<>>

====
